---- MODULE Spec2Model ----
(***************************************************************************)
(* wpt.py: the web-platform-test screenshot harness of blitz.              *)
(*                                                                         *)
(* main() starts a static file server in a background thread, recreates    *)
(* the out directory, enumerates the css-flexbox test files and, for each  *)
(* one, renders the test page and its reference page through the external  *)
(* screenshot example, compares the two screenshots with pixelmatch and    *)
(* logs PASS, FAIL or SKIP.                                                *)
(*                                                                         *)
(* Paths and URLs are sequences of one-character strings, so that          *)
(* endswith, the substring test, replace and concatenation are computed    *)
(* on the characters, as the script computes them.                         *)
(***************************************************************************)
EXTENDS Integers, Sequences, FiniteSets, TLC

(* ----------------------------- bounds --------------------------------- *)

\* the longest directory listing the glob returns
MaxFiles == 2

\* the largest screenshot, in pixels
MaxPix == 2

(* --------------------------- string literals --------------------------- *)

\* the value of the WPT_DIR environment variable, when set
WPT_DIR_VALUE ==
    <<"w">>

\* the value of the BLITZ_REPO environment variable, when set
BLITZ_REPO_VALUE ==
    <<"b">>

GLOB_DIR ==
    <<"/","c","s","s","/","c","s","s","-","f","l","e","x","b","o","x">>

SUFFIX_REF ==
    <<"-","r","e","f",".","h","t","m","l">>

SUFFIX_TENTATIVE ==
    <<".","t","e","n","t","a","t","i","v","e",".","h","t","m","l">>

REFERENCE ==
    <<"r","e","f","e","r","e","n","c","e">>

OUTPUT_SUFFIX ==
    <<"/","e","x","a","m","p","l","e","s","/","o","u","t","p","u","t","/","l","o","c","a","l","h","o","s","t","8","0","0",".","p","n","g">>

URL_BASE ==
    <<"h","t","t","p",":","/","/","l","o","c","a","l","h","o","s","t",":","8","0","0","0","/">>

REFERENCE_URL_BASE ==
    <<"h","t","t","p",":","/","/","l","o","c","a","l","h","o","s","t",":","8","0","0","0","/","c","s","s","/","c","s","s","-","f","l","e","x","b","o","x","/">>

OUT_PREFIX ==
    <<"o","u","t","/">>

ACT_SUFFIX ==
    <<"-","a","c","t",".","p","n","g">>

REF_SUFFIX ==
    <<"-","r","e","f",".","p","n","g">>

DIFF_SUFFIX ==
    <<"-","d","i","f","f",".","p","n","g">>

(* ------------------------- string operations --------------------------- *)

\* str.endswith
EndsWith(s, suffix) ==
    /\ Len(s) >= Len(suffix)
    /\ SubSeq(s, Len(s) - Len(suffix) + 1, Len(s)) = suffix

\* the `in` operator on strings
Contains(s, sub) ==
    \E k \in 1..(Len(s) - Len(sub) + 1) : SubSeq(s, k, k + Len(sub) - 1) = sub

\* str.replace for a one-character old and new
Replace(s, old, new) ==
    [k \in 1..Len(s) |-> IF s[k] = old THEN new ELSE s[k]]

(* --------------------------- the test corpus --------------------------- *)

\* the html files below <WPT_DIR>/css/css-flexbox that a run may find: the
\* name below that directory (in URL form) and the hrefs of the file's
\* link[rel=match] elements, in document order
FOO ==
    <<"f","o","o",".","h","t","m","l">>

FOO_REF ==
    <<"f","o","o","-","r","e","f",".","h","t","m","l">>

BAR_TENTATIVE ==
    <<"b","a","r",".","t","e","n","t","a","t","i","v","e",".","h","t","m","l">>

REFERENCE_BAZ ==
    <<"r","e","f","e","r","e","n","c","e","/","b","a","z",".","h","t","m","l">>

QUX ==
    <<"q","u","x",".","h","t","m","l">>

FileUniverse ==
    { [name |-> FOO,           match |-> <<FOO_REF>>],
      [name |-> FOO_REF,       match |-> <<>>],
      [name |-> BAR_TENTATIVE, match |-> <<FOO_REF>>],
      [name |-> REFERENCE_BAZ, match |-> <<>>],
      [name |-> QUX,           match |-> <<>>] }

\* the directory listings: up to MaxFiles different files, in any order
Listings ==
    { s \in UNION { [1..n -> FileUniverse] : n \in 0..MaxFiles } :
        \A i, j \in DOMAIN s : i /= j => s[i] /= s[j] }

(* ----------------------------- screenshots ----------------------------- *)

\* the pixel data a screenshot may hold: a canvas of up to MaxPix pixels,
\* blank or with one pixel inked
Pixels ==
    UNION { { [k \in 1..n |-> IF k = inked THEN 1 ELSE 0] : inked \in 0..n } : n \in 1..MaxPix }

\* a stored image: its pixel data and, as provenance, the number of the
\* renderer invocation that produced it (0: none of this run)
Image(by, px) ==
    [by |-> by, px |-> px]

(* ------------------------------- state --------------------------------- *)

VARIABLES
    env,            \* which environment variables are set
    sep,            \* os.sep of the platform
    disk,           \* the html files below the glob directory, in listing order
    pc,             \* the position of the main thread in main()
    files,          \* main: files
    idx,            \* main: the position of the for loop in files
    rel_path,       \* main: rel_path
    url,            \* main: url
    href_value,     \* main: href_value
    actual_image,   \* main: the path actual_image was opened from
    expected_image, \* main: the path expected_image was opened from
    fs,             \* the image files: path -> Image
    effects,        \* the startup steps taken so far
    server,         \* the state of server_thread and of its http.server
    process,        \* whether the interpreter process is alive
    invocations,    \* the renderer invocations made, in order
    comparisons,    \* the calls of create_diff_image_or_none, in order
    visits,         \* the loop iterations begun, in order
    log             \* the verdict lines logged, in order

locals == <<rel_path, url, href_value, actual_image, expected_image>>

history == <<invocations, comparisons, visits, log>>

vars == <<env, sep, disk, pc, files, idx, locals, fs, effects, server, process, history>>

\* a local of main() that holds no value of the current iteration
Unset == <<>>

(* ----------------------- functions of the script ----------------------- *)

\* line 64: output_path
output_path ==
    BLITZ_REPO_VALUE \o OUTPUT_SUFFIX

\* line 73: glob.glob(wpt_dir + "/css/css-flexbox/**/*.html", recursive=True);
\* the part the pattern's ** and * match is joined with os.sep
glob(listing) ==
    [i \in 1..Len(listing) |->
        WPT_DIR_VALUE \o GLOB_DIR \o <<sep>> \o Replace(listing[i].name, "/", sep)]

\* the filter of line 80 without its .tentative.html clause
ExcludedNoTentative(file) ==
    \/ EndsWith(file, SUFFIX_REF)
    \/ Contains(file, REFERENCE)

\* line 80: the filename filter
Excluded(file) ==
    \/ EndsWith(file, SUFFIX_REF)
    \/ EndsWith(file, SUFFIX_TENTATIVE)
    \/ Contains(file, REFERENCE)

\* line 83: os.path.relpath(file, wpt_dir), for a file below wpt_dir: the
\* components after wpt_dir, joined with os.sep
relpath(file, start) ==
    Replace(SubSeq(file, Len(start) + 2, Len(file)), "/", sep)

\* line 84
TestUrl(rel) ==
    URL_BASE \o rel

\* line 115: the href appended to a fixed base, no URL joining
ReferenceUrl(href) ==
    REFERENCE_URL_BASE \o href

\* line 97
ActualOutPath(rel) ==
    OUT_PREFIX \o rel \o ACT_SUFFIX

\* line 131
ExpectedOutPath(rel) ==
    OUT_PREFIX \o rel \o REF_SUFFIX

\* lines 137-138: rel_path.replace("\\", "_"), then the diff path
DiffOutputPath(rel) ==
    OUT_PREFIX \o Replace(rel, "\\", "_") \o DIFF_SUFFIX

\* pixelmatch(img1, img2, ...) with threshold 0.0 and includeAA: the number
\* of positions at which the two images differ (images of one size)
pixelmatch(img1, img2) ==
    Cardinality({k \in DOMAIN img1 : img1[k] /= img2[k]})

\* pixelmatch raises ValueError for images of different sizes
SizesMatch(img1, img2) ==
    Len(img1) = Len(img2)

\* the mask pixelmatch draws into img_diff (diff_mask=True)
DiffMask(img1, img2) ==
    [k \in DOMAIN img1 |-> IF img1[k] /= img2[k] THEN 1 ELSE 0]

\* lines 38-46 with a tolerance of one mismatched pixel
create_diff_image_or_none_tolerant(img1, img2) ==
    LET did_pass == pixelmatch(img1, img2) <= 1
    IN  IF ~did_pass THEN <<DiffMask(img1, img2)>> ELSE <<>>

\* lines 38-46: <<img_diff>> for img_diff, <<>> for None
create_diff_image_or_none(img1, img2) ==
    LET did_pass == pixelmatch(img1, img2) <= 0
    IN  IF ~did_pass THEN <<DiffMask(img1, img2)>> ELSE <<>>

\* the diff image that an earlier run, in which foo.html failed, left in
\* the out directory
StaleDiff ==
    DiffOutputPath(relpath(glob(<<[name |-> FOO, match |-> <<FOO_REF>>]>>)[1], WPT_DIR_VALUE))

\* shutil.rmtree("out"): the files below out/ are gone
rmtree(f) ==
    LET kept == {p \in DOMAIN f : SubSeq(p, 1, Len(OUT_PREFIX)) /= OUT_PREFIX}
    IN  [p \in kept |-> f[p]]

\* Image.save: the file at path holds img afterwards
Save(f, path, img) ==
    (path :> img) @@ f

(* ------------------------------- Init ---------------------------------- *)

Init ==
    /\ env \in [{"WPT_DIR", "BLITZ_REPO"} -> BOOLEAN]
    /\ sep \in {"/", "\\"}
    /\ disk \in Listings
    /\ pc = "start"
    /\ files = <<>>
    /\ idx = 0
    /\ rel_path = Unset
    /\ url = Unset
    /\ href_value = Unset
    /\ actual_image = Unset
    /\ expected_image = Unset
    \* the renderer's output file holds what an earlier run left there, and
    \* the out directory may hold a diff image of an earlier run
    /\ fs \in { (output_path :> Image(0, <<0>>)),
                 (output_path :> Image(0, <<0>>)) @@ (StaleDiff :> Image(0, <<1>>)) }
    /\ effects = {}
    /\ server = "unstarted"
    /\ process = "running"
    /\ invocations = <<>>
    /\ comparisons = <<>>
    /\ visits = <<>>
    /\ log = <<>>

(* ---------------------------- main thread ------------------------------ *)

\* a verdict line: logger.info / logger.error of "<VERDICT>: " + file
Line(verdict, i) ==
    [verdict |-> verdict, file |-> i]

\* `continue`, or the end of the loop body: the loop takes the next file
\* and the locals of the iteration are dead
NextFile ==
    /\ idx' = idx + 1
    /\ pc' = "loop"
    /\ rel_path' = Unset
    /\ url' = Unset
    /\ href_value' = Unset
    /\ actual_image' = Unset
    /\ expected_image' = Unset

\* lines 50-54
CheckWptDir ==
    /\ pc = "start"
    /\ pc' = IF env["WPT_DIR"] THEN "check_blitz" ELSE "done"
    /\ UNCHANGED <<env, sep, disk, files, idx, locals, fs, effects, server, process, history>>

\* lines 56-60 without the quit() of line 60
CheckBlitzRepoNoQuit ==
    /\ pc = "check_blitz"
    /\ pc' = "start_server"
    /\ UNCHANGED <<env, sep, disk, files, idx, locals, fs, effects, server, process, history>>

\* lines 56-60
CheckBlitzRepo ==
    /\ pc = "check_blitz"
    /\ pc' = IF env["BLITZ_REPO"] THEN "start_server" ELSE "done"
    /\ UNCHANGED <<env, sep, disk, files, idx, locals, fs, effects, server, process, history>>

\* lines 62-68: server_thread.start()
StartServer ==
    /\ pc = "start_server"
    /\ server' = "starting"
    /\ effects' = effects \cup {"thread_start"}
    /\ pc' = "prepare_out"
    /\ UNCHANGED <<env, sep, disk, files, idx, locals, fs, process, history>>

\* lines 70-71
PrepareOut ==
    /\ pc = "prepare_out"
    /\ fs' = rmtree(fs)
    /\ effects' = effects \cup {"rmtree", "makedirs"}
    /\ pc' = "enumerate"
    /\ UNCHANGED <<env, sep, disk, files, idx, locals, server, process, history>>

\* line 73
Enumerate ==
    /\ pc = "enumerate"
    /\ files' = glob(disk)
    /\ idx' = 1
    /\ effects' = effects \cup {"glob"}
    /\ pc' = "loop"
    /\ UNCHANGED <<env, sep, disk, locals, fs, server, process, history>>

\* lines 75-85: the loop takes a file, skips it if the filter excludes it,
\* and otherwise derives rel_path and url; after the last file, line 152:
\* quit() raises SystemExit and the main thread ends
LoopHead ==
    /\ pc = "loop"
    /\ IF idx > Len(files)
       THEN /\ pc' = "done"
            /\ UNCHANGED <<idx, locals, visits>>
       ELSE /\ visits' = Append(visits, idx)
            /\ IF Excluded(files[idx])
               THEN NextFile
               ELSE /\ rel_path' = relpath(files[idx], WPT_DIR_VALUE)
                    /\ url' = TestUrl(relpath(files[idx], WPT_DIR_VALUE))
                    /\ pc' = "render_test"
                    /\ UNCHANGED <<idx, href_value, actual_image, expected_image>>
    /\ UNCHANGED <<env, sep, disk, files, fs, effects, server, process, invocations, comparisons, log>>

\* how a renderer invocation may end: within the timeout with exit status 0
\* and the screenshot written, by the timeout, or with a non-zero status.
\* A failed invocation may or may not have left a file at the output path;
\* main() reads that path only after a successful invocation, so one
\* content stands for every file a failed invocation may leave
RendererRuns ==
    { [outcome |-> "ok", written |-> <<px>>] : px \in Pixels } \cup
    { [outcome |-> o, written |-> w] :
        o \in {"timeout", "nonzero"}, w \in {<<>>, <<(<<0>>)>>} }

\* subprocess.run(cmd, timeout=timeout, check=True, ...) for target, ending as run
Invoke(target, role, run) ==
    /\ invocations' = Append(invocations,
            [url |-> target, role |-> role, file |-> idx,
             outcome |-> run.outcome])
    /\ fs' = IF run.written /= <<>>
             THEN Save(fs, output_path, Image(Len(invocations) + 1, run.written[1]))
             ELSE fs

\* RenderTest behind a readiness check: the renderer is launched only once
\* the server listens
RenderTestAwaitsServer ==
    /\ pc = "render_test"
    /\ server = "listening"
    /\ \E run \in RendererRuns :
        /\ Invoke(url, "test", run)
        /\ IF run.outcome = "ok"
           THEN /\ pc' = "save_actual"
                /\ UNCHANGED <<idx, locals, log>>
           ELSE /\ log' = Append(log, Line("SKIP", idx))
                /\ NextFile
    /\ UNCHANGED <<env, sep, disk, files, effects, server, process, comparisons, visits>>

\* RenderTest with a retry: a failed invocation is made again
RenderTestRetries ==
    /\ pc = "render_test"
    /\ \E run \in RendererRuns :
        /\ Invoke(url, "test", run)
        /\ pc' = IF run.outcome = "ok" THEN "save_actual" ELSE "render_test"
        /\ UNCHANGED <<idx, locals, log>>
    /\ UNCHANGED <<env, sep, disk, files, effects, server, process, comparisons, visits>>

\* lines 87-95
RenderTest ==
    /\ pc = "render_test"
    /\ \E run \in RendererRuns :
        /\ Invoke(url, "test", run)
        /\ IF run.outcome = "ok"
           THEN /\ pc' = "save_actual"
                /\ UNCHANGED <<idx, locals, log>>
           ELSE /\ log' = Append(log, Line("SKIP", idx))
                /\ NextFile
    /\ UNCHANGED <<env, sep, disk, files, effects, server, process, comparisons, visits>>

\* lines 97-101 without the copy: actual_image stays opened from the
\* renderer's output path
SaveActualNoCopy ==
    /\ pc = "save_actual"
    /\ actual_image' = output_path
    /\ pc' = "resolve_reference"
    /\ UNCHANGED <<env, sep, disk, files, idx, rel_path, url, href_value, expected_image,
                   fs, effects, server, process, history>>

\* lines 97-101: the screenshot is copied to the -act.png path and
\* actual_image is reopened from the copy
SaveActual ==
    /\ pc = "save_actual"
    /\ fs' = Save(fs, ActualOutPath(rel_path), fs[output_path])
    /\ actual_image' = ActualOutPath(rel_path)
    /\ pc' = "resolve_reference"
    /\ UNCHANGED <<env, sep, disk, files, idx, rel_path, url, href_value, expected_image,
                   effects, server, process, history>>

\* ResolveReference without line 111: after the SKIP line of a missing link
\* the iteration goes on, with no href
ResolveReferenceNoContinue ==
    /\ pc = "resolve_reference"
    /\ IF disk[idx].match /= <<>>
       THEN /\ href_value' = disk[idx].match[1]
            /\ UNCHANGED log
       ELSE /\ href_value' = <<>>
            /\ log' = Append(log, Line("SKIP", idx))
    /\ pc' = "render_reference"
    /\ UNCHANGED <<idx, rel_path, url, actual_image, expected_image>>
    /\ UNCHANGED <<env, sep, disk, files, fs, effects, server, process, invocations, comparisons, visits>>

\* ResolveReference without line 110: a missing link is skipped silently
ResolveReferenceSilent ==
    /\ pc = "resolve_reference"
    /\ IF disk[idx].match /= <<>>
       THEN /\ href_value' = disk[idx].match[1]
            /\ pc' = "render_reference"
            /\ UNCHANGED <<idx, rel_path, url, actual_image, expected_image, log>>
       ELSE /\ UNCHANGED log
            /\ NextFile
    /\ UNCHANGED <<env, sep, disk, files, fs, effects, server, process, invocations, comparisons, visits>>

\* lines 103-111: soup.find("link", rel="match")
ResolveReference ==
    /\ pc = "resolve_reference"
    /\ IF disk[idx].match /= <<>>
       THEN /\ href_value' = disk[idx].match[1]
            /\ pc' = "render_reference"
            /\ UNCHANGED <<idx, rel_path, url, actual_image, expected_image, log>>
       ELSE /\ log' = Append(log, Line("SKIP", idx))
            /\ NextFile
    /\ UNCHANGED <<env, sep, disk, files, fs, effects, server, process, invocations, comparisons, visits>>

\* lines 113-129
RenderReference ==
    /\ pc = "render_reference"
    /\ \E run \in RendererRuns :
        /\ Invoke(ReferenceUrl(href_value), "reference", run)
        /\ IF run.outcome = "ok"
           THEN /\ pc' = "save_expected"
                /\ UNCHANGED <<idx, locals, log>>
           ELSE /\ log' = Append(log, Line("SKIP", idx))
                /\ NextFile
    /\ UNCHANGED <<env, sep, disk, files, effects, server, process, comparisons, visits>>

\* lines 131-135
SaveExpected ==
    /\ pc = "save_expected"
    /\ fs' = Save(fs, ExpectedOutPath(rel_path), fs[output_path])
    /\ expected_image' = ExpectedOutPath(rel_path)
    /\ pc' = "compare"
    /\ UNCHANGED <<env, sep, disk, files, idx, rel_path, url, href_value, actual_image,
                   effects, server, process, history>>

\* lines 137-150: the two images are read from the files they were opened
\* from and compared; a ValueError of pixelmatch is caught nowhere
Compare ==
    /\ pc = "compare"
    /\ comparisons' = Append(comparisons,
            [file |-> idx, actual |-> fs[actual_image], expected |-> fs[expected_image]])
    /\ IF ~SizesMatch(fs[actual_image].px, fs[expected_image].px)
       THEN /\ pc' = "crashed"
            /\ UNCHANGED <<idx, locals, fs, log>>
       ELSE LET diff_image == create_diff_image_or_none(fs[actual_image].px, fs[expected_image].px)
                are_equal == diff_image = <<>>
            IN  /\ fs' = IF diff_image /= <<>>
                         THEN Save(fs, DiffOutputPath(rel_path), Image(0, diff_image[1]))
                         ELSE fs
                /\ log' = Append(log, Line(IF are_equal THEN "PASS" ELSE "FAIL", idx))
                /\ NextFile
    /\ UNCHANGED <<env, sep, disk, files, effects, server, process, invocations, visits>>

(* --------------------------- server thread ----------------------------- *)

\* lines 30-36: http.server binds port 8000 and serves until it is killed;
\* subprocess.run does not return while it serves
ServerListens ==
    /\ server = "starting"
    /\ server' = "listening"
    /\ UNCHANGED <<env, sep, disk, pc, files, idx, locals, fs, effects, process, history>>

\* lines 30-36: http.server fails to start (the port is taken);
\* subprocess.run returns and the thread ends
ServerFails ==
    /\ server = "starting"
    /\ server' = "exited"
    /\ UNCHANGED <<env, sep, disk, pc, files, idx, locals, fs, effects, process, history>>

(* ------------------------------ process -------------------------------- *)

\* lines 67-68: server_thread is not a daemon thread, so the interpreter
\* exits when the main thread has ended and server_thread has ended
ProcessExit ==
    /\ process = "running"
    /\ pc \in {"done", "crashed"}
    /\ server \in {"unstarted", "exited"}
    /\ process' = "exited"
    /\ UNCHANGED <<env, sep, disk, pc, files, idx, locals, fs, effects, server, history>>

Next ==
    \/ CheckWptDir
    \/ CheckBlitzRepo
    \/ StartServer
    \/ PrepareOut
    \/ Enumerate
    \/ LoopHead
    \/ RenderTest
    \/ SaveActual
    \/ ResolveReference
    \/ RenderReference
    \/ SaveExpected
    \/ Compare
    \/ ServerListens
    \/ ServerFails
    \/ ProcessExit

Spec == Init /\ [][Next]_vars

\* the threads of the process are scheduled, and so is the interpreter's exit
FairSpec == Spec /\ WF_vars(Next)

(* ======================= properties of a run ========================== *)

\* the verdict lines logged for the i-th enumerated file
LinesOf(i) ==
    SelectSeq(log, LAMBDA l : l.file = i)

\* the renderer invocations made while the loop was at the i-th file
InvocationsOf(i) ==
    SelectSeq(invocations, LAMBDA v : v.file = i)

\* the comparator calls made while the loop was at the i-th file
ComparisonsOf(i) ==
    SelectSeq(comparisons, LAMBDA c : c.file = i)

\* the iteration of the i-th file has ended (by continue or at its last line)
IterationOver(i) ==
    idx > i

\* main() ran to its last line; no error ended it early
RunComplete ==
    pc = "done" /\ "glob" \in effects

\* the filename filter as section 4.2 / 8 of the description states it
NamedAsReference(file) ==
    \/ EndsWith(file, <<"-","r","e","f",".","h","t","m","l">>)
    \/ EndsWith(file, <<".","t","e","n","t","a","t","i","v","e",".","h","t","m","l">>)
    \/ Contains(file, <<"r","e","f","e","r","e","n","c","e">>)

\* the URL under which the file server serves the i-th enumerated file
ServedUrl(i) ==
    TestUrl(relpath(files[i], WPT_DIR_VALUE))

\* the artifacts of the i-th enumerated file that exist
ArtifactsOf(i) ==
    LET rel == relpath(files[i], WPT_DIR_VALUE)
    IN  {ActualOutPath(rel), ExpectedOutPath(rel), DiffOutputPath(rel)} \cap DOMAIN fs

(* ------------------------------- C1 ----------------------------------- *)

\* C1: when main() has run to its end without an uncaught error, every
\* enumerated file that the filename filter does not exclude was visited
\* exactly once and has exactly one verdict line, a PASS, FAIL or SKIP line.
C1_OneVerdictPerFile ==
    RunComplete =>
        \A i \in 1..Len(files) :
            ~NamedAsReference(files[i]) =>
                /\ Len(SelectSeq(visits, LAMBDA v : v = i)) = 1
                /\ Len(LinesOf(i)) = 1
                /\ LinesOf(i)[1].verdict \in {"PASS", "FAIL", "SKIP"}

\* a complete run over two test files, one compared and one skipped
C1_Witness ==
    /\ RunComplete
    /\ Len(log) = 2
    /\ \E k \in DOMAIN log : log[k].verdict = "SKIP"
    /\ \E k \in DOMAIN log : log[k].verdict \in {"PASS", "FAIL"}

(* ------------------------------- C2 ----------------------------------- *)

\* C2, as stated: for an enumerated file whose path ends with -ref.html or
\* .tentative.html or contains reference, no renderer invocation is made
\* for its URL, no artifact is written for it and no verdict line is logged
\* for it.
C2_AsStated ==
    \A i \in 1..Len(files) :
        NamedAsReference(files[i]) =>
            /\ \A k \in DOMAIN invocations : invocations[k].url /= ServedUrl(i)
            /\ ArtifactsOf(i) = {}
            /\ LinesOf(i) = <<>>

\* C2, amended: for such a file the loop makes no renderer invocation of
\* its own (none in its iteration, and none that takes its URL as a test
\* URL), writes no artifact and logs no verdict line; its URL is rendered
\* only as the reference page of another test case.
C2_ExcludedNeverPrimary ==
    \A i \in 1..Len(files) :
        NamedAsReference(files[i]) =>
            /\ InvocationsOf(i) = <<>>
            /\ ComparisonsOf(i) = <<>>
            /\ \A k \in DOMAIN invocations :
                invocations[k].url = ServedUrl(i) => invocations[k].role = "reference"
            /\ ArtifactsOf(i) = {}
            /\ LinesOf(i) = <<>>

\* the loop has passed an excluded file whose URL was rendered as the
\* reference page of a test case
C2_Witness ==
    \E i \in 1..Len(files) :
        /\ NamedAsReference(files[i])
        /\ IterationOver(i)
        /\ \E k \in DOMAIN invocations :
            /\ invocations[k].url = ServedUrl(i)
            /\ invocations[k].role = "reference"

(* ------------------------------- C3 ----------------------------------- *)

\* C3: for a test file without a link[rel=match] element the comparator is
\* never called, the renderer is never invoked on a reference URL, no
\* verdict other than SKIP is logged, and when its iteration is over its
\* verdict is one SKIP line.
C3_NoMatchLinkSkips ==
    \A i \in 1..Len(files) :
        (~NamedAsReference(files[i]) /\ disk[i].match = <<>>) =>
            /\ ComparisonsOf(i) = <<>>
            /\ \A k \in DOMAIN invocations :
                invocations[k].file = i => invocations[k].role = "test"
            /\ \A k \in DOMAIN log : log[k].file = i => log[k].verdict = "SKIP"
            /\ IterationOver(i) => LinesOf(i) = <<Line("SKIP", i)>>

\* a test file without the link was rendered and its iteration is over
C3_Witness ==
    \E i \in 1..Len(files) :
        /\ ~NamedAsReference(files[i])
        /\ disk[i].match = <<>>
        /\ IterationOver(i)
        /\ \E k \in DOMAIN invocations :
            invocations[k].file = i /\ invocations[k].outcome = "ok"

(* ------------------------------- C4 ----------------------------------- *)

\* C4: after a renderer invocation that timed out or exited non-zero, the
\* test case has the one verdict SKIP, no later renderer invocation and no
\* comparator call is made for it, and the loop has moved on past it.
C4_RenderFailureSkips ==
    \A k \in DOMAIN invocations :
        invocations[k].outcome \in {"timeout", "nonzero"} =>
            LET i == invocations[k].file
            IN  /\ LinesOf(i) = <<Line("SKIP", i)>>
                /\ \A j \in DOMAIN invocations : j > k => invocations[j].file /= i
                /\ ComparisonsOf(i) = <<>>
                /\ IterationOver(i)

\* a timed-out reference render and a non-zero test render, each followed
\* by the processing of a later file
C4_Witness ==
    /\ \E k \in DOMAIN invocations :
        /\ invocations[k].outcome = "timeout"
        /\ invocations[k].role = "reference"
        /\ \E j \in DOMAIN visits : visits[j] > invocations[k].file
    /\ RunComplete

(* ------------------------------- C5 ----------------------------------- *)

\* C5: once the loop is through the enumerated files and the end-of-run
\* quit() is made, the process (its file-server thread included) ends.
C5_ProcessTerminates ==
    RunComplete ~> (process = "exited")

(* ------------------------------- C6 ----------------------------------- *)

\* the relative path with every path separator replaced by "_"
C6_Flat(rel) ==
    Replace(Replace(rel, "/", "_"), "\\", "_")

\* C6: the diff image of a FAIL verdict is at out/<flat>-diff.png, where
\* <flat> is the test's relative path with every path separator replaced by
\* "_"; for css/css-flexbox/foo.html it is
\* out/css_css-flexbox_foo.html-diff.png.
C6_DiffArtifactFlat ==
    \A i \in 1..Len(files) :
        (LinesOf(i) = <<Line("FAIL", i)>>) =>
            (<<"o","u","t","/">> \o C6_Flat(relpath(files[i], WPT_DIR_VALUE))
                \o <<"-","d","i","f","f",".","p","n","g">>) \in DOMAIN fs

(* ------------------------------- C7 ----------------------------------- *)

\* C7: for a test case that was compared, the verdict is PASS exactly when
\* the mismatched-pixel count of pixelmatch is zero and is FAIL otherwise,
\* and its diff image exists exactly when the verdict is FAIL.
C7_PassIffZeroMismatch ==
    \A k \in DOMAIN comparisons :
        LET c == comparisons[k]
            i == c.file
            diff_path == DiffOutputPath(relpath(files[i], WPT_DIR_VALUE))
        IN  (IterationOver(i) /\ SizesMatch(c.actual.px, c.expected.px)) =>
                /\ LinesOf(i) \in {<<Line("PASS", i)>>, <<Line("FAIL", i)>>}
                /\ LinesOf(i) = <<Line("PASS", i)>> <=> pixelmatch(c.actual.px, c.expected.px) = 0
                /\ diff_path \in DOMAIN fs <=> LinesOf(i) = <<Line("FAIL", i)>>

\* two identical screenshots of more than one pixel were compared and the
\* iteration is over
C7_Witness ==
    \E k \in DOMAIN comparisons :
        /\ IterationOver(comparisons[k].file)
        /\ Len(comparisons[k].actual.px) > 1
        /\ comparisons[k].actual.px = comparisons[k].expected.px

(* ------------------------------- C8 ----------------------------------- *)

\* C8: with WPT_DIR or BLITZ_REPO unset, main() takes none of its startup
\* steps: the server thread is not started, out is neither removed nor
\* created, no files are enumerated, the renderer is never invoked, and
\* main() is at one of the two checks or has ended.
C8_MissingEnvHalts ==
    (~env["WPT_DIR"] \/ ~env["BLITZ_REPO"]) =>
        /\ effects = {}
        /\ server = "unstarted"
        /\ files = <<>>
        /\ visits = <<>>
        /\ invocations = <<>>
        /\ log = <<>>
        /\ pc \in {"start", "check_blitz", "done"}

\* BLITZ_REPO alone is unset and the process has ended
C8_Witness ==
    /\ env["WPT_DIR"]
    /\ ~env["BLITZ_REPO"]
    /\ process = "exited"

(* ------------------------------- C9 ----------------------------------- *)

\* C9: nothing makes the renderer wait for the file server: whenever main()
\* is about to launch the renderer on a test URL and the server is not
\* listening, the launch can be made at once.
C9_RenderNotGatedOnServer ==
    (pc = "render_test" /\ server /= "listening") => ENABLED RenderTest

\* the first renderer invocation has been made and the server thread is
\* still starting http.server (a server that has started never goes back
\* to starting, so it was not listening when the renderer was launched)
C9_Witness ==
    /\ Len(invocations) = 1
    /\ invocations[1].role = "test"
    /\ server = "starting"

(* ------------------------------- C10 ---------------------------------- *)

\* C10: the actual image given to the comparator is the screenshot of the
\* test case's own successful test-URL invocation and the expected image
\* that of its own, later, reference-URL invocation; and when the
\* reference-URL invocation is about to be launched, the test-URL
\* screenshot is already at the -act.png path.
C10_ComparesOwnScreenshots ==
    /\ \A k \in DOMAIN comparisons :
        LET c == comparisons[k]
        IN  \E t, r \in DOMAIN invocations :
                /\ t < r
                /\ invocations[t].file = c.file
                /\ invocations[t].role = "test"
                /\ invocations[t].outcome = "ok"
                /\ invocations[r].file = c.file
                /\ invocations[r].role = "reference"
                /\ invocations[r].outcome = "ok"
                /\ c.actual.by = t
                /\ c.expected.by = r
    /\ pc = "render_reference" =>
        /\ ActualOutPath(rel_path) \in DOMAIN fs
        /\ fs[ActualOutPath(rel_path)].by = Len(invocations)
        /\ invocations[Len(invocations)].file = idx
        /\ invocations[Len(invocations)].role = "test"

\* a comparison was made for a test case that was not the first one
\* rendered, after the output path had been overwritten by its reference
C10_Witness ==
    \E k \in DOMAIN comparisons :
        /\ comparisons[k].actual.by > 1
        /\ fs[output_path].by = comparisons[k].expected.by

====
